---- MODULE Spec2Model ----
(***************************************************************************)
(* Model of the blogicum blog application (src/blogicum/blog): the post    *)
(* and comment store, the class-based views of views.py that read and      *)
(* mutate it, and the query helpers of mixins.py.                          *)
(*                                                                         *)
(* A view that runs one database statement is one action.  A view that     *)
(* runs several is one action per statement, each with the code of the     *)
(* view that leads up to it: the request waits in `pending` between its    *)
(* statements, and the statements of other requests run in between.  The   *)
(* variable `last` holds the request just answered together with the       *)
(* response the view produced for it.  Requests reach the views with the   *)
(* keyword arguments the views name (post_id, comment_id, category_slug,   *)
(* username).  models.py is not part of the sources: the tables follow the *)
(* schema of the specification (Post.category nullable, Comment.post a     *)
(* cascading foreign key).  The form of PostCreateView does not carry      *)
(* is_published; a new post is taken to be published.                      *)
(***************************************************************************)
EXTENDS Integers, Sequences, FiniteSets, Bags, TLC

(***************************************************************************)
(* Bounds of the model.                                                    *)
(***************************************************************************)
\* number of post primary keys the store hands out
MaxPosts == 2
\* number of comment primary keys the store hands out
MaxComments == 1
\* latest value of the clock (timezone.now())
MaxTime == 2
\* largest number of rows handed to the paginator
MaxRows == 23
\* largest page number requested from the paginator
MaxPage == 4
\* requests that may be between their first and their last statement
MaxPending == 2

(***************************************************************************)
(* Actors, categories and request inputs.                                  *)
(***************************************************************************)
\* request.user of a request without a session (AnonymousUser)
Anonymous == "anon"
\* primary keys of the User table: u1 and u2 are registered from the start,
\* u3 is the key of the next account
Accounts == {"u1", "u2", "u3"}
\* usernames a request may name; at the start "ghost" names no account
Usernames == {"u1", "u2", "ghost"}
\* rows of the Category table, identified by their slug
Slugs == {"c1", "c2"}
\* slugs a category request may name; "zz" matches no row
RequestSlugs == Slugs \cup {"zz"}
\* value of Post.category when the foreign key is NULL
NoCategory == "none"
\* values of pub_date a post form may carry
PubDates == {1, 2}
\* primary keys a request may name (a key names no row before it is issued
\* and after its row is deleted)
PostIds == 1..MaxPosts
CommentIds == 1..MaxComments
\* texts a comment form may carry: empty, blank, plain, padded
Texts == {<<>>, <<" ">>, <<"h">>, <<" ", "y">>}

VARIABLES
    posts,          \* Post table: primary key -> row
    comments,       \* Comment table: primary key -> row
    next_post_id,   \* next primary key of the Post table
    next_comment_id,\* next primary key of the Comment table
    category_is_published, \* Category table: slug -> is_published
    usernames,      \* User table: primary key -> username
    now,            \* timezone.now()
    pending,        \* bag of the requests between two of their statements
    post_creator,   \* history: who sent the request that created each post
    comment_creator,\* history: who sent the request that created each comment
    last            \* the request just served and its response

\* registered accounts; is_staff is read by no view of views.py
Users == DOMAIN usernames
Viewers == Users \cup {Anonymous}

vars == <<posts, comments, next_post_id, next_comment_id,
          category_is_published, usernames, now, pending, post_creator,
          comment_creator, last>>

(***************************************************************************)
(* Sequences and sets.                                                     *)
(***************************************************************************)
\* all orders in which the rows of S can be returned
Orderings(S) ==
    {f \in [1..Cardinality(S) -> S] : \A i, j \in 1..Cardinality(S) : f[i] = f[j] => i = j}

Range(s) == {s[i] : i \in 1..Len(s)}

\* str.strip() on a text given as a sequence of characters
RECURSIVE lstrip(_)
lstrip(t) == IF t # <<>> /\ Head(t) = " " THEN lstrip(Tail(t)) ELSE t

RECURSIVE rstrip(_)
rstrip(t) ==
    IF t # <<>> /\ t[Len(t)] = " " THEN rstrip(SubSeq(t, 1, Len(t) - 1)) ELSE t

strip(t) == rstrip(lstrip(t))

(***************************************************************************)
(* Responses.                                                              *)
(***************************************************************************)
OK == "200"
NotFound == "404"
ServerError == "500"
RedirectLogin == "302 login"
RedirectDetail == "302 post_detail"
RedirectProfile == "302 profile"
RedirectIndex == "302 index"

\* request.GET.get("page"): absent, a text that is no number, the word
\* "last", or the number n
NoPage == [kind |-> "absent", n |-> 0]
PageText == [kind |-> "text", n |-> 0]
PageLast == [kind |-> "last", n |-> 0]
PageNumber(n) == [kind |-> "number", n |-> n]

\* a request (op, viewer, pid, cid, name, text, page over rows) and what the view answered
\* (status, items of the rendered page, is_owner of the profile context)
Response(op, viewer, pid, cid, name, text, status, items, is_owner) ==
    [op |-> op, viewer |-> viewer, pid |-> pid, cid |-> cid, name |-> name,
     text |-> text, status |-> status, items |-> items, is_owner |-> is_owner,
     page |-> NoPage, rows |-> 0]

NoRequest == Response("none", Anonymous, 0, 0, "", <<>>, OK, <<>>, FALSE)

(***************************************************************************)
(* Store helpers (django.db).                                              *)
(***************************************************************************)
Insert(table, pk, row) == [i \in DOMAIN table \cup {pk} |-> IF i = pk THEN row ELSE table[i]]

Remove(table, pks) == [i \in DOMAIN table \ pks |-> table[i]]

\* Comment.post is a foreign key with on_delete=CASCADE: Collector.collect
\* selects the comments of the post that is to be deleted
Collector_collect(pid) == {c \in DOMAIN comments : comments[c].post = pid}

\* a table that does not check the foreign key of the rows it is given
foreign_key_ok_Unchecked(post_id) == TRUE

\* the constraint of the foreign key Comment.post_id on INSERT
foreign_key_ok(post_id) == post_id \in DOMAIN posts

\* the constraint of the foreign key Comment.post_id on the DELETE of post
\* pid together with the comments in collected: no other comment names pid
post_delete_ok(pid, collected) ==
    \A c \in DOMAIN comments \ collected : comments[c].post # pid

\* Post.is_published of a new post: the form of PostCreateView does not
\* carry the field, and the default of the model is taken to be True
DefaultIsPublished == TRUE

(***************************************************************************)
(* Query sets of views.py.  A query set is the set of primary keys it      *)
(* selects; the order of its rows is decided where it is evaluated.        *)
(***************************************************************************)
\* .filter(is_published=True, pub_date__lte=timezone.now(),
\*         category__is_published=True): the join on category drops the rows
\* whose category is NULL.  timezone.now() is called when the filter is
\* built (its value then is t); the rows are those of the store when the
\* query runs.
published_filter(p, t) ==
    /\ p.is_published
    /\ p.pub_date <= t
    /\ p.category \in Slugs
    /\ category_is_published[p.category]

\* PostQuerySetMixin.get_base_queryset, built when timezone.now() was t
get_base_queryset(t) == {id \in DOMAIN posts : published_filter(posts[id], t)}

\* annotate(comment_count=Count("comments")) for one post
comment_count(pid) == Cardinality({c \in DOMAIN comments : comments[c].post = pid})

\* PostDetailView.get_queryset
PostDetailView_get_queryset == get_base_queryset(now)

\* the category looked up among all categories, published or not
CategoryPostsView_categories_Unfiltered == Slugs

\* Category.objects.filter(is_published=True) of CategoryPostsView.get_queryset
CategoryPostsView_categories == {s \in Slugs : category_is_published[s]}

\* CategoryPostsView.get_queryset once the category is found
CategoryPostsView_get_queryset(slug, t) ==
    {id \in get_base_queryset(t) : posts[id].category = slug}

\* get_object of ProfileView and the uniqueness checks of the user forms:
\* the accounts that carry the username
User_by_username(name) == {u \in Users : usernames[u] = name}

\* ProfileView._get_user_posts for the account `user`
ProfileView_get_user_posts(viewer, user, t) ==
    LET user_posts == {id \in DOMAIN posts : posts[id].author = user}
    IN  IF viewer = user
        THEN user_posts
        ELSE {id \in user_posts : published_filter(posts[id], t)}

\* PostUpdateView.get_queryset
PostUpdateView_get_queryset(viewer) == {id \in DOMAIN posts : posts[id].author = viewer}

\* the delete view looking the post up among the posts of all authors
PostDeleteView_get_queryset_AllAuthors(viewer) == DOMAIN posts

\* PostDeleteView.get_queryset
PostDeleteView_get_queryset(viewer) == {id \in DOMAIN posts : posts[id].author = viewer}

\* CommentUpdateView.get_queryset
CommentUpdateView_get_queryset(viewer) ==
    {c \in DOMAIN comments : comments[c].author = viewer}

\* CommentDeleteView.get_queryset
CommentDeleteView_get_queryset(viewer) ==
    {c \in DOMAIN comments : comments[c].author = viewer}

(***************************************************************************)
(* mixins.py.  No view of views.py calls get_post_queryset or inherits     *)
(* AuthorRequiredMixin.                                                    *)
(***************************************************************************)
\* get_post_queryset: the orders in which its rows can come.  order_by
\* ('-pub_date') names no second key, so rows of equal pub_date come in any
\* order; without the annotation no order_by is applied at all.
get_post_queryset(apply_filters, apply_annotation) ==
    LET rows == IF apply_filters
                THEN {id \in DOMAIN posts : published_filter(posts[id], now)}
                ELSE DOMAIN posts
    IN  IF apply_annotation
        THEN {o \in Orderings(rows) :
                \A i, j \in 1..Len(o) : i < j => posts[o[i]].pub_date >= posts[o[j]].pub_date}
        ELSE Orderings(rows)

\* AuthorRequiredMixin.dispatch for an existing post: the response when the
\* request is turned away, "pass" when it goes on to the view
\* redirect("blog:post_detail", pk=post.pk): the pattern of post_detail takes
\* post_pk (urls.py) and the views reverse it with post_id (views.py); with
\* the keyword pk the reverse finds no pattern (NoReverseMatch)
AuthorRequiredMixin_redirect == ServerError

AuthorRequiredMixin_dispatch(viewer, pid) ==
    IF viewer = Anonymous THEN AuthorRequiredMixin_redirect
    ELSE IF posts[pid].author # viewer THEN AuthorRequiredMixin_redirect
    ELSE "pass"

(***************************************************************************)
(* django.core.paginator.Paginator as ProfileView and PostListView use it. *)
(* The paginator counts the rows (SELECT COUNT) to place the page; the     *)
(* rows of the page are selected when the template iterates over it.       *)
(***************************************************************************)
paginate_by == 10

\* Paginator.num_pages with allow_empty_first_page and no orphans
num_pages(count) ==
    LET hits == IF count > 1 THEN count ELSE 1
    IN  (hits + paginate_by - 1) \div paginate_by

\* Paginator.page(number) for a valid number: the bounds of
\* object_list[bottom:top], placed by the count
page_bounds(count, number) ==
    LET bottom == (number - 1) * paginate_by
    IN  [bottom |-> bottom,
         top |-> IF bottom + paginate_by >= count THEN count ELSE bottom + paginate_by]

\* object_list[bottom:top] evaluated (LIMIT top - bottom OFFSET bottom) on
\* the rows the query returns
page_rows(rows, bottom, top) ==
    LET stop == IF top < Len(rows) THEN top ELSE Len(rows)
    IN  IF bottom >= stop THEN <<>> ELSE SubSeq(rows, bottom + 1, stop)

\* Paginator.get_page: PageNotAnInteger -> page 1, EmptyPage -> the last page
get_page_number(count, page) ==
    IF page.kind # "number" THEN 1
    ELSE IF page.n < 1 \/ page.n > num_pages(count) THEN num_pages(count)
    ELSE page.n

\* ProfileView._paginate_posts on a query set that counts `count` rows
ProfileView_paginate_posts(count, page) ==
    page_bounds(count, get_page_number(count, page))

\* the answer of paginate_queryset for a page that is not there (Http404)
InvalidPage == 0

\* PostListView (ListView.paginate_queryset with paginate_by): the number of
\* the page asked for.  No parameter is page 1 and "last" the last page; any
\* other text, a number below 1 and a number beyond the last page raise
\* Http404.
paginate_queryset(count, page) ==
    CASE page.kind = "absent" -> 1
      [] page.kind = "last" -> num_pages(count)
      [] page.kind = "text" -> InvalidPage
      [] OTHER -> IF page.n < 1 \/ page.n > num_pages(count)
                  THEN InvalidPage ELSE page.n

(***************************************************************************)
(* Form handling.                                                          *)
(***************************************************************************)
\* CommentForm.is_valid(): text is a required CharField, stripped before the
\* required check
CommentForm_is_valid(text) == strip(text) # <<>>

\* CommentForm.cleaned_data["text"]
CommentForm_cleaned_text(text) == strip(text)

\* PostCreateView.form_valid: the row the form saves, with the author set
\* from the request
PostCreateView_form_valid(viewer, pub_date, category) ==
    [author |-> viewer, pub_date |-> pub_date, category |-> category,
     is_published |-> DefaultIsPublished]

\* PostUpdateView: the form carries title, text, pub_date, location, category
\* and image; of these the model keeps pub_date and category
PostUpdateView_form_save(row, pub_date, category) ==
    [row EXCEPT !.pub_date = pub_date, !.category = category]

\* the comment credited to the author of the post instead of the viewer
add_comment_instance_PostAuthor(viewer, pid, post, text) ==
    [author |-> post.author, post |-> pid, text |-> CommentForm_cleaned_text(text)]

\* add_comment: the comment built from the form, the request and the post
\* that get_object_or_404 returned (pid its id, post its row)
add_comment_instance(viewer, pid, post, text) ==
    [author |-> viewer, post |-> pid, text |-> CommentForm_cleaned_text(text)]

\* CommentUpdateView: the form carries text only (forms.py defines
\* CreateCommentForm with fields ('text',); the specification edits a
\* comment by its text and keeps author and post)
CommentUpdateView_form_save(row, text) ==
    [row EXCEPT !.text = CommentForm_cleaned_text(text)]

(***************************************************************************)
(* Initial state: an empty blog with two accounts and two categories set   *)
(* up by the administrator, one published and one not.                     *)
(***************************************************************************)
Init ==
    /\ posts = <<>>
    /\ comments = <<>>
    /\ next_post_id = 1
    /\ next_comment_id = 1
    /\ category_is_published = [s \in Slugs |-> s = "c1"]
    /\ usernames = [u \in {"u1", "u2"} |-> u]
    /\ now = 1
    /\ pending = EmptyBag
    /\ post_creator = <<>>
    /\ comment_creator = <<>>
    /\ last = NoRequest

frame_read == UNCHANGED <<posts, comments, next_post_id, next_comment_id,
                          category_is_published, usernames, now, pending, post_creator,
                          comment_creator>>

frame_store == UNCHANGED <<posts, comments, next_post_id, next_comment_id,
                           category_is_published, usernames, now, post_creator,
                           comment_creator>>

(***************************************************************************)
(* Requests between two of their statements.                               *)
(***************************************************************************)
\* values of the fields of a waiting request that its view does not use
NoPost == [author |-> Anonymous, pub_date |-> 0, category |-> NoCategory,
           is_published |-> FALSE]
NoComment == [author |-> Anonymous, post |-> 0, text |-> <<>>]
NoForm == [pub_date |-> 0, category |-> NoCategory, text |-> <<>>, username |-> ""]
NoRead == [name |-> "", page |-> NoPage, now |-> 0, profile |-> Anonymous,
           bottom |-> 0, top |-> 0]

\* a request that has run its statements up to `step`: post and comment are
\* the rows it has loaded (self.object), form is request.POST, collected the
\* comments Collector.collect has selected
Request(op, step, viewer, pid, cid, post, comment, form, collected) ==
    [op |-> op, step |-> step, viewer |-> viewer, pid |-> pid, cid |-> cid,
     post |-> post, comment |-> comment, form |-> form, collected |-> collected,
     read |-> NoRead]

\* a request of a view that lists: name is the slug or username of the URL,
\* page the page parameter
ReadRequest(op, step, viewer, name, page) ==
    [Request(op, step, viewer, 0, 0, NoPost, NoComment, NoForm, {})
        EXCEPT !.read = [NoRead EXCEPT !.name = name, !.page = page]]

\* the waiting requests of one view
PendingOf(op) ==
    LET rs == {r \in BagToSet(pending) : r.op = op}
    IN  BagCardinality([r \in rs |-> pending[r]])

\* request r is about to run the statement `step` of view `op`
AtStep(r, op, step) == BagIn(r, pending) /\ r.op = op /\ r.step = step

\* a request starts to wait, goes on to its next statement, is answered
Wait(r) == pending' = pending (+) SetToBag({r})
Replace(r, r2) == pending' = (pending (-) SetToBag({r})) (+) SetToBag({r2})
Advance(r, step) == Replace(r, [r EXCEPT !.step = step])
Done(r) == pending' = pending (-) SetToBag({r})

(***************************************************************************)
(* Read views.                                                             *)
(***************************************************************************)
\* GET posts/<post_id>/ : PostDetailView up to get_object (the SELECT over
\* get_queryset)
PostDetailGetObject(viewer, pid) ==
    IF pid \notin PostDetailView_get_queryset
    THEN /\ last' = Response("post_detail", viewer, pid, 0, "", <<>>, NotFound,
                             <<>>, FALSE)
         /\ frame_read
    ELSE /\ BagCardinality(pending) < MaxPending
         /\ Wait(Request("post_detail", "comments", viewer, pid, 0, posts[pid],
                         NoComment, NoForm, {}))
         /\ last' = NoRequest
         /\ frame_store

\* PostDetailView, the template: the comments of get_context_data are
\* selected when the page is rendered.  Of the page the model keeps the
\* status.
PostDetailComments(r) ==
    /\ AtStep(r, "post_detail", "comments")
    /\ Done(r)
    /\ last' = Response("post_detail", r.viewer, r.pid, 0, "", <<>>, OK, <<>>, FALSE)
    /\ frame_store

\* GET /?page= : IndexView up to the SELECT COUNT of paginate_queryset.
\* get_queryset builds the filter, so timezone.now() is read here.
IndexCount(viewer, page) ==
    LET count == Cardinality(get_base_queryset(now))
        number == paginate_queryset(count, page)
        bounds == page_bounds(count, number)
    IN  IF number = InvalidPage
        THEN /\ last' = [Response("index", viewer, 0, 0, "", <<>>, NotFound,
                                  <<>>, FALSE) EXCEPT !.page = page]
             /\ frame_read
        ELSE /\ BagCardinality(pending) < MaxPending
             /\ Wait([ReadRequest("index", "rows", viewer, "", page)
                         EXCEPT !.read.now = now, !.read.bottom = bounds.bottom,
                                !.read.top = bounds.top])
             /\ last' = NoRequest
             /\ frame_store

\* IndexView, the template: the rows of the page are selected.
\* get_base_queryset carries no order_by and the annotation makes it a GROUP
\* BY query, so the rows come in any order.
IndexRows(r) ==
    /\ AtStep(r, "index", "rows")
    /\ Done(r)
    /\ \E rows \in Orderings(get_base_queryset(r.read.now)) :
          last' = [Response("index", r.viewer, 0, 0, "", <<>>, OK,
                            page_rows(rows, r.read.bottom, r.read.top), FALSE)
                   EXCEPT !.page = r.read.page]
    /\ frame_store

\* GET category/<slug>/?page= : CategoryPostsView.get_queryset up to
\* get_object_or_404, which raises Http404 unless a published category has
\* the slug
CategoryPostsGetQueryset(viewer, slug, page) ==
    IF slug \notin CategoryPostsView_categories
    THEN /\ last' = [Response("category", viewer, 0, 0, slug, <<>>, NotFound,
                              <<>>, FALSE) EXCEPT !.page = page]
         /\ frame_read
    ELSE /\ BagCardinality(pending) < MaxPending
         /\ Wait(ReadRequest("category", "count", viewer, slug, page))
         /\ last' = NoRequest
         /\ frame_store

\* CategoryPostsView from the filter of get_queryset to the response:
\* paginate_queryset counts the rows and raises Http404 for a page that is
\* not there; get_context_data then reads self.object, which a ListView
\* does not have (AttributeError)
CategoryPostsCount(r) ==
    LET count == Cardinality(CategoryPostsView_get_queryset(r.read.name, now))
    IN  /\ AtStep(r, "category", "count")
        /\ Done(r)
        /\ last' = [Response("category", r.viewer, 0, 0, r.read.name, <<>>,
                             IF paginate_queryset(count, r.read.page) = InvalidPage
                             THEN NotFound ELSE ServerError,
                             <<>>, FALSE) EXCEPT !.page = r.read.page]
        /\ frame_store

\* GET profile/<username>/?page= : ProfileView up to the get_object of
\* DetailView.get (SELECT of the user by username)
ProfileGetObject(viewer, name, page) ==
    IF User_by_username(name) = {}
    THEN /\ last' = [Response("profile", viewer, 0, 0, name, <<>>, NotFound,
                              <<>>, FALSE) EXCEPT !.page = page]
         /\ frame_read
    ELSE /\ BagCardinality(pending) < MaxPending
         /\ Wait(ReadRequest("profile", "get_object", viewer, name, page))
         /\ last' = NoRequest
         /\ frame_store

\* ProfileView.get_context_data: self.get_object() selects the user by
\* username a second time
ProfileGetContextData(r) ==
    /\ AtStep(r, "profile", "get_object")
    /\ IF User_by_username(r.read.name) = {}
       THEN /\ Done(r)
            /\ last' = [Response("profile", r.viewer, 0, 0, r.read.name, <<>>,
                                 NotFound, <<>>, FALSE) EXCEPT !.page = r.read.page]
       ELSE /\ \E u \in User_by_username(r.read.name) :
                  Replace(r, [r EXCEPT !.step = "count", !.read.profile = u])
            /\ last' = NoRequest
    /\ frame_store

\* ProfileView from _get_user_posts to the SELECT COUNT of
\* Paginator.get_page
ProfileCount(r) ==
    LET count == Cardinality(ProfileView_get_user_posts(r.viewer, r.read.profile, now))
        bounds == ProfileView_paginate_posts(count, r.read.page)
    IN  /\ AtStep(r, "profile", "count")
        /\ Replace(r, [r EXCEPT !.step = "rows", !.read.now = now,
                                !.read.bottom = bounds.bottom,
                                !.read.top = bounds.top])
        /\ last' = NoRequest
        /\ frame_store

\* ProfileView, the template: the rows of page_obj are selected; is_owner
\* compares request.user with the profile of get_context_data
ProfileRows(r) ==
    /\ AtStep(r, "profile", "rows")
    /\ Done(r)
    /\ \E rows \in Orderings(ProfileView_get_user_posts(r.viewer, r.read.profile,
                                                        r.read.now)) :
          last' = [Response("profile", r.viewer, 0, 0, r.read.name, <<>>, OK,
                            page_rows(rows, r.read.bottom, r.read.top),
                            r.viewer = r.read.profile)
                   EXCEPT !.page = r.read.page]
    /\ frame_store

\* a caller of mixins.get_post_queryset evaluating the query set
GetPostQueryset(apply_filters, apply_annotation) ==
    /\ \E rows \in get_post_queryset(apply_filters, apply_annotation) :
          last' = Response("get_post_queryset", Anonymous, 0, 0, "", <<>>, OK, rows, FALSE)
    /\ frame_read

\* ProfileView._paginate_posts on a profile of n posts that does not change,
\* the rows numbered in the order the query set returns them
ProfilePage(n, page) ==
    LET bounds == ProfileView_paginate_posts(n, page)
    IN  /\ last' = [Response("profile_page", Anonymous, 0, 0, "", <<>>, OK,
                             page_rows([i \in 1..n |-> i], bounds.bottom, bounds.top),
                             FALSE)
                    EXCEPT !.page = page, !.rows = n]
        /\ frame_read

(***************************************************************************)
(* Account views.                                                          *)
(***************************************************************************)
\* POST edit_profile/ : EditProfileView up to the validation of the form,
\* whose uniqueness check selects the other accounts with the username; an
\* invalid form is rendered again
EditProfileValidate(viewer, name) ==
    IF viewer = Anonymous
    THEN /\ last' = Response("edit_profile", viewer, 0, 0, name, <<>>, RedirectLogin,
                             <<>>, FALSE)
         /\ frame_read
    ELSE IF User_by_username(name) \ {viewer} # {}
    THEN /\ last' = Response("edit_profile", viewer, 0, 0, name, <<>>, OK,
                             <<>>, FALSE)
         /\ frame_read
    ELSE /\ BagCardinality(pending) < MaxPending
         /\ Wait(Request("edit_profile", "save", viewer, 0, 0, NoPost, NoComment,
                         [NoForm EXCEPT !.username = name], {}))
         /\ last' = NoRequest
         /\ frame_store

\* EditProfileView, form.save(): the UPDATE of request.user, which the
\* unique index on username turns down (IntegrityError) when another account
\* has taken the name since the validation
EditProfileSave(r) ==
    /\ AtStep(r, "edit_profile", "save")
    /\ Done(r)
    /\ IF User_by_username(r.form.username) \ {r.viewer} # {}
       THEN /\ last' = Response("edit_profile", r.viewer, 0, 0, r.form.username,
                                <<>>, ServerError, <<>>, FALSE)
            /\ UNCHANGED usernames
       ELSE /\ usernames' = [usernames EXCEPT ![r.viewer] = r.form.username]
            /\ last' = Response("edit_profile", r.viewer, 0, 0, r.form.username,
                                <<>>, RedirectProfile, <<>>, FALSE)
    /\ UNCHANGED <<posts, comments, next_post_id, next_comment_id,
                   category_is_published, now, post_creator, comment_creator>>

\* the primary key of the next account
next_user == CHOOSE u \in Accounts \ Users : TRUE

\* POST auth/registration/ : RegistrationView up to the validation of
\* UserCreationForm, which selects the accounts with the username; an
\* invalid form is rendered again
RegistrationValidate(name) ==
    IF User_by_username(name) # {}
    THEN /\ last' = Response("registration", Anonymous, 0, 0, name, <<>>, OK,
                             <<>>, FALSE)
         /\ frame_read
    ELSE /\ BagCardinality(pending) < MaxPending
         /\ Cardinality(Users) + PendingOf("registration") < Cardinality(Accounts)
         /\ Wait(Request("registration", "save", Anonymous, 0, 0, NoPost, NoComment,
                         [NoForm EXCEPT !.username = name], {}))
         /\ last' = NoRequest
         /\ frame_store

\* RegistrationView.form_valid: form.save() is the INSERT of the account,
\* which the unique index on username turns down when the name has been
\* taken since the validation; login() then makes the account request.user
RegistrationSave(r) ==
    /\ AtStep(r, "registration", "save")
    /\ Done(r)
    /\ IF User_by_username(r.form.username) # {}
       THEN /\ last' = Response("registration", Anonymous, 0, 0, r.form.username,
                                <<>>, ServerError, <<>>, FALSE)
            /\ UNCHANGED usernames
       ELSE /\ usernames' = Insert(usernames, next_user, r.form.username)
            /\ last' = Response("registration", next_user, 0, 0, r.form.username,
                                <<>>, RedirectProfile, <<>>, FALSE)
    /\ UNCHANGED <<posts, comments, next_post_id, next_comment_id,
                   category_is_published, now, post_creator, comment_creator>>

(***************************************************************************)
(* Post views that write.                                                  *)
(***************************************************************************)
\* POST posts/create/ : PostCreateView, whose only statement is the INSERT
CreatePost(viewer, pub_date, category) ==
    IF viewer = Anonymous
    THEN /\ last' = Response("create_post", viewer, 0, 0, "", <<>>, RedirectLogin,
                             <<>>, FALSE)
         /\ frame_read
    ELSE /\ next_post_id <= MaxPosts
         /\ posts' = Insert(posts, next_post_id,
                            PostCreateView_form_valid(viewer, pub_date, category))
         /\ post_creator' = Insert(post_creator, next_post_id, viewer)
         /\ next_post_id' = next_post_id + 1
         /\ last' = Response("create_post", viewer, next_post_id, 0, "", <<>>,
                             RedirectProfile, <<>>, FALSE)
         /\ UNCHANGED <<comments, next_comment_id, category_is_published, usernames, now,
                        pending, comment_creator>>

\* POST posts/<post_id>/edit/ : PostUpdateView up to get_object (the SELECT
\* over get_queryset)
EditPostGetObject(viewer, pid, pub_date, category) ==
    IF viewer = Anonymous
    THEN /\ last' = Response("edit_post", viewer, pid, 0, "", <<>>, RedirectLogin,
                             <<>>, FALSE)
         /\ frame_read
    ELSE IF pid \notin PostUpdateView_get_queryset(viewer)
    THEN /\ last' = Response("edit_post", viewer, pid, 0, "", <<>>, NotFound,
                             <<>>, FALSE)
         /\ frame_read
    ELSE /\ BagCardinality(pending) < MaxPending
         /\ Wait(Request("edit_post", "update", viewer, pid, 0, posts[pid], NoComment,
                         [NoForm EXCEPT !.pub_date = pub_date, !.category = category],
                         {}))
         /\ last' = NoRequest
         /\ frame_store

\* PostUpdateView, form.save(): Model.save() of the loaded instance runs an
\* UPDATE of all its fields; when the UPDATE matches no row it goes on to an
\* INSERT
EditPostUpdate(r) ==
    /\ AtStep(r, "edit_post", "update")
    /\ IF r.pid \in DOMAIN posts
       THEN /\ posts' = [posts EXCEPT ![r.pid] =
                            PostUpdateView_form_save(r.post, r.form.pub_date,
                                                     r.form.category)]
            /\ Done(r)
            /\ last' = Response("edit_post", r.viewer, r.pid, 0, "", <<>>,
                                RedirectDetail, <<>>, FALSE)
       ELSE /\ Advance(r, "insert")
            /\ last' = NoRequest
            /\ UNCHANGED posts
    /\ UNCHANGED <<comments, next_post_id, next_comment_id, category_is_published, usernames,
                   now, post_creator, comment_creator>>

\* PostUpdateView, the INSERT of Model.save(): the primary key is unique
\* (IntegrityError when the row is there again)
EditPostInsert(r) ==
    /\ AtStep(r, "edit_post", "insert")
    /\ Done(r)
    /\ IF r.pid \in DOMAIN posts
       THEN /\ last' = Response("edit_post", r.viewer, r.pid, 0, "", <<>>,
                                ServerError, <<>>, FALSE)
            /\ UNCHANGED posts
       ELSE /\ posts' = Insert(posts, r.pid,
                               PostUpdateView_form_save(r.post, r.form.pub_date,
                                                        r.form.category))
            /\ last' = Response("edit_post", r.viewer, r.pid, 0, "", <<>>,
                                RedirectDetail, <<>>, FALSE)
    /\ UNCHANGED <<comments, next_post_id, next_comment_id, category_is_published, usernames,
                   now, post_creator, comment_creator>>

\* POST posts/<post_id>/delete/ : PostDeleteView up to get_object; of the
\* row it loads the view uses the primary key only
DeletePostGetObject(viewer, pid) ==
    IF viewer = Anonymous
    THEN /\ last' = Response("delete_post", viewer, pid, 0, "", <<>>, RedirectLogin,
                             <<>>, FALSE)
         /\ frame_read
    ELSE IF pid \notin PostDeleteView_get_queryset(viewer)
    THEN /\ last' = Response("delete_post", viewer, pid, 0, "", <<>>, NotFound,
                             <<>>, FALSE)
         /\ frame_read
    ELSE /\ BagCardinality(pending) < MaxPending
         /\ Wait(Request("delete_post", "collect", viewer, pid, 0, NoPost,
                         NoComment, NoForm, {}))
         /\ last' = NoRequest
         /\ frame_store

\* PostDeleteView, self.object.delete(): the collector selects the comments
\* of the post
DeletePostCollect(r) ==
    /\ AtStep(r, "delete_post", "collect")
    /\ pending' = (pending (-) SetToBag({r})) (+)
                  SetToBag({[r EXCEPT !.step = "delete",
                                      !.collected = Collector_collect(r.pid)]})
    /\ last' = NoRequest
    /\ frame_store

\* PostDeleteView, self.object.delete(): the collected comments and the post
\* are deleted in one transaction, which the foreign key of a comment added
\* since the collection aborts
DeletePostDelete(r) ==
    /\ AtStep(r, "delete_post", "delete")
    /\ Done(r)
    /\ IF post_delete_ok(r.pid, r.collected)
       THEN /\ comments' = Remove(comments, r.collected)
            /\ posts' = Remove(posts, {r.pid})
            /\ last' = Response("delete_post", r.viewer, r.pid, 0, "", <<>>,
                                RedirectIndex, <<>>, FALSE)
       ELSE /\ last' = Response("delete_post", r.viewer, r.pid, 0, "", <<>>,
                                ServerError, <<>>, FALSE)
            /\ UNCHANGED <<posts, comments>>
    /\ UNCHANGED <<next_post_id, next_comment_id, category_is_published, usernames, now,
                   post_creator, comment_creator>>

(***************************************************************************)
(* Comment views.                                                          *)
(***************************************************************************)
\* POST posts/<post_id>/comment/ : add_comment up to and including
\* get_object_or_404(Post, id=post_id)
AddCommentGetObject(viewer, pid, text) ==
    IF viewer = Anonymous
    THEN /\ last' = Response("add_comment", viewer, pid, 0, "", text, RedirectLogin,
                             <<>>, FALSE)
         /\ frame_read
    ELSE IF pid \notin DOMAIN posts
    THEN /\ last' = Response("add_comment", viewer, pid, 0, "", text, NotFound,
                             <<>>, FALSE)
         /\ frame_read
    ELSE /\ BagCardinality(pending) < MaxPending
         /\ next_comment_id + PendingOf("add_comment") <= MaxComments
         /\ Wait(Request("add_comment", "save", viewer, pid, 0, posts[pid], NoComment,
                         [NoForm EXCEPT !.text = text], {}))
         /\ last' = NoRequest
         /\ frame_store

\* add_comment from CommentForm(request.POST) to the redirect: comment.save()
\* is an INSERT, which the foreign key rejects when the post is gone
AddCommentSave(r) ==
    /\ AtStep(r, "add_comment", "save")
    /\ Done(r)
    /\ IF CommentForm_is_valid(r.form.text)
       THEN IF foreign_key_ok(r.pid)
            THEN /\ comments' = Insert(comments, next_comment_id,
                                       add_comment_instance(r.viewer, r.pid, r.post,
                                                            r.form.text))
                 /\ comment_creator' = Insert(comment_creator, next_comment_id,
                                              r.viewer)
                 /\ next_comment_id' = next_comment_id + 1
                 /\ last' = Response("add_comment", r.viewer, r.pid, next_comment_id,
                                     "", r.form.text, RedirectDetail, <<>>, FALSE)
            ELSE /\ last' = Response("add_comment", r.viewer, r.pid, 0, "",
                                     r.form.text, ServerError, <<>>, FALSE)
                 /\ UNCHANGED <<comments, comment_creator, next_comment_id>>
       ELSE /\ last' = Response("add_comment", r.viewer, r.pid, 0, "", r.form.text,
                                RedirectDetail, <<>>, FALSE)
            /\ UNCHANGED <<comments, comment_creator, next_comment_id>>
    /\ UNCHANGED <<posts, next_post_id, category_is_published, usernames, now, post_creator>>

\* POST .../edit_comment/<comment_id>/ : CommentUpdateView up to get_object
EditCommentGetObject(viewer, cid, text) ==
    IF viewer = Anonymous
    THEN /\ last' = Response("edit_comment", viewer, 0, cid, "", <<>>, RedirectLogin,
                             <<>>, FALSE)
         /\ frame_read
    ELSE IF cid \notin CommentUpdateView_get_queryset(viewer)
    THEN /\ last' = Response("edit_comment", viewer, 0, cid, "", <<>>, NotFound,
                             <<>>, FALSE)
         /\ frame_read
    ELSE /\ BagCardinality(pending) < MaxPending
         /\ Wait(Request("edit_comment", "update", viewer, comments[cid].post, cid,
                         NoPost, comments[cid], [NoForm EXCEPT !.text = text], {}))
         /\ last' = NoRequest
         /\ frame_store

\* CommentUpdateView from the form to the UPDATE of form.save().  An invalid
\* form is rendered again through get_context_data, which calls
\* self._get_post_comments, a method the view does not have.
EditCommentUpdate(r) ==
    /\ AtStep(r, "edit_comment", "update")
    /\ IF ~CommentForm_is_valid(r.form.text)
       THEN /\ Done(r)
            /\ last' = Response("edit_comment", r.viewer, 0, r.cid, "", <<>>,
                                ServerError, <<>>, FALSE)
            /\ UNCHANGED comments
       ELSE IF r.cid \in DOMAIN comments
       THEN /\ comments' = [comments EXCEPT ![r.cid] =
                               CommentUpdateView_form_save(r.comment, r.form.text)]
            /\ Advance(r, "success_url")
            /\ last' = NoRequest
       ELSE /\ Advance(r, "insert")
            /\ last' = NoRequest
            /\ UNCHANGED comments
    /\ UNCHANGED <<posts, next_post_id, next_comment_id, category_is_published, usernames,
                   now, post_creator, comment_creator>>

\* CommentUpdateView, the INSERT of Model.save() after an UPDATE that matched
\* no row: the primary key is unique and the foreign key names a post
EditCommentInsert(r) ==
    /\ AtStep(r, "edit_comment", "insert")
    /\ IF r.cid \in DOMAIN comments \/ ~foreign_key_ok(r.comment.post)
       THEN /\ Done(r)
            /\ last' = Response("edit_comment", r.viewer, r.comment.post, r.cid, "",
                                <<>>, ServerError, <<>>, FALSE)
            /\ UNCHANGED comments
       ELSE /\ comments' = Insert(comments, r.cid,
                                  CommentUpdateView_form_save(r.comment, r.form.text))
            /\ Advance(r, "success_url")
            /\ last' = NoRequest
    /\ UNCHANGED <<posts, next_post_id, next_comment_id, category_is_published, usernames,
                   now, post_creator, comment_creator>>

\* CommentUpdateView.get_success_url: self.object.post is a SELECT of the
\* post (Post.DoesNotExist when it is gone)
EditCommentSuccessUrl(r) ==
    /\ AtStep(r, "edit_comment", "success_url")
    /\ Done(r)
    /\ last' = Response("edit_comment", r.viewer, r.comment.post, r.cid, "", <<>>,
                        IF r.comment.post \in DOMAIN posts
                        THEN RedirectDetail ELSE ServerError,
                        <<>>, FALSE)
    /\ frame_store

\* POST .../delete_comment/<comment_id>/ : CommentDeleteView up to get_object
DeleteCommentGetObject(viewer, cid) ==
    IF viewer = Anonymous
    THEN /\ last' = Response("delete_comment", viewer, 0, cid, "", <<>>,
                             RedirectLogin, <<>>, FALSE)
         /\ frame_read
    ELSE IF cid \notin CommentDeleteView_get_queryset(viewer)
    THEN /\ last' = Response("delete_comment", viewer, 0, cid, "", <<>>, NotFound,
                             <<>>, FALSE)
         /\ frame_read
    ELSE /\ BagCardinality(pending) < MaxPending
         /\ Wait(Request("delete_comment", "success_url", viewer, comments[cid].post,
                         cid, NoPost, comments[cid], NoForm, {}))
         /\ last' = NoRequest
         /\ frame_store

\* CommentDeleteView.get_success_url, called before the delete:
\* self.object.post is a SELECT of the post
DeleteCommentSuccessUrl(r) ==
    /\ AtStep(r, "delete_comment", "success_url")
    /\ IF r.comment.post \in DOMAIN posts
       THEN /\ Advance(r, "delete")
            /\ last' = NoRequest
       ELSE /\ Done(r)
            /\ last' = Response("delete_comment", r.viewer, r.comment.post, r.cid,
                                "", <<>>, ServerError, <<>>, FALSE)
    /\ frame_store

\* CommentDeleteView, self.object.delete(): the DELETE of the comment
DeleteCommentDelete(r) ==
    /\ AtStep(r, "delete_comment", "delete")
    /\ Done(r)
    /\ comments' = Remove(comments, {r.cid})
    /\ last' = Response("delete_comment", r.viewer, r.comment.post, r.cid, "", <<>>,
                        RedirectDetail, <<>>, FALSE)
    /\ UNCHANGED <<posts, next_post_id, next_comment_id, category_is_published, usernames,
                   now, post_creator, comment_creator>>
(***************************************************************************)
(* The environment: administration and the clock.                          *)
(***************************************************************************)
\* the administrator sets is_published of a post
AdminSetPostPublished(pid, flag) ==
    /\ pid \in DOMAIN posts
    /\ posts[pid].is_published # flag
    /\ posts' = [posts EXCEPT ![pid].is_published = flag]
    /\ last' = NoRequest
    /\ UNCHANGED <<comments, next_post_id, next_comment_id, category_is_published, usernames,
                   now, pending, post_creator, comment_creator>>

\* the administrator sets is_published of a category
AdminSetCategoryPublished(slug, flag) ==
    /\ category_is_published[slug] # flag
    /\ category_is_published' = [category_is_published EXCEPT ![slug] = flag]
    /\ last' = NoRequest
    /\ UNCHANGED <<posts, comments, next_post_id, next_comment_id, usernames, now,
                   pending, post_creator, comment_creator>>

\* time passes
Tick ==
    /\ now < MaxTime
    /\ now' = now + 1
    /\ last' = NoRequest
    /\ UNCHANGED <<posts, comments, next_post_id, next_comment_id,
                   category_is_published, usernames, pending, post_creator, comment_creator>>

(***************************************************************************)
(* Specifications.                                                         *)
(***************************************************************************)
\* what a post form may carry: (pub_date, category)
PostInputs == PubDates \X (Slugs \cup {NoCategory})

Environment ==
    \/ \E p \in PostIds, f \in BOOLEAN : AdminSetPostPublished(p, f)
    \/ \E s \in Slugs, f \in BOOLEAN : AdminSetCategoryPublished(s, f)
    \/ Tick

\* page parameters of a request
PageParams == {NoPage, PageText, PageLast} \cup {PageNumber(n) : n \in -1..MaxPage}

\* every signed-in viewer writes posts, which are published, unpublished
\* and asked for by every viewer as time passes
NextRead ==
    \/ \E v \in Viewers, f \in PostInputs : CreatePost(v, f[1], f[2])
    \/ Environment
    \/ \E v \in Viewers, p \in PostIds : PostDetailGetObject(v, p)
    \/ \E r \in BagToSet(pending) : PostDetailComments(r)

SpecRead == Init /\ [][NextRead]_vars

\* u1 writes posts of every date, the administrator publishes and
\* unpublishes them, and the index is asked for page by page as time passes
NextListing ==
    \/ \E d \in PubDates : CreatePost("u1", d, "c1")
    \/ \E p \in PostIds, f \in BOOLEAN : AdminSetPostPublished(p, f)
    \/ Tick
    \/ \E v \in {Anonymous, "u1"}, g \in {NoPage, PageText, PageLast, PageNumber(1),
                                         PageNumber(2)} : IndexCount(v, g)
    \/ \E r \in BagToSet(pending) : IndexRows(r)
    \/ \E f \in BOOLEAN, a \in BOOLEAN : GetPostQueryset(f, a)

SpecListing == Init /\ [][NextListing]_vars

\* accounts are registered and renamed while u1 writes posts, with and
\* without a category, and u1 and an anonymous viewer ask for the profiles
NextProfile ==
    \/ \E c \in {"c1", NoCategory} : CreatePost("u1", 1, c)
    \/ \E v \in {Anonymous, "u1"}, u \in Usernames : ProfileGetObject(v, u, NoPage)
    \/ \E u \in Usernames : ProfileGetObject(Anonymous, u, PageNumber(2))
    \/ \E r \in BagToSet(pending) : ProfileGetContextData(r)
    \/ \E r \in BagToSet(pending) : ProfileCount(r)
    \/ \E r \in BagToSet(pending) : ProfileRows(r)
    \/ \E v \in {Anonymous, "u1", "u2"}, u \in Usernames : EditProfileValidate(v, u)
    \/ \E r \in BagToSet(pending) : EditProfileSave(r)
    \/ \E u \in {"u1", "ghost"} : RegistrationValidate(u)
    \/ \E r \in BagToSet(pending) : RegistrationSave(r)

SpecProfile == Init /\ [][NextProfile]_vars

\* u1 writes posts in every category, the administrator publishes and
\* unpublishes the categories, and every viewer asks for every category
NextCategory ==
    \/ \E c \in Slugs : CreatePost("u1", 1, c)
    \/ \E s \in Slugs, f \in BOOLEAN : AdminSetCategoryPublished(s, f)
    \/ \E v \in Viewers, s \in RequestSlugs : CategoryPostsGetQueryset(v, s, NoPage)
    \/ \E s \in RequestSlugs : CategoryPostsGetQueryset(Anonymous, s, PageNumber(2))
    \/ \E r \in BagToSet(pending) : CategoryPostsCount(r)

SpecCategory == Init /\ [][NextCategory]_vars

\* the statements of the requests that wait
EditPostSteps ==
    \/ \E r \in BagToSet(pending) : EditPostUpdate(r)
    \/ \E r \in BagToSet(pending) : EditPostInsert(r)

DeletePostSteps ==
    \/ \E r \in BagToSet(pending) : DeletePostCollect(r)
    \/ \E r \in BagToSet(pending) : DeletePostDelete(r)

EditCommentSteps ==
    \/ \E r \in BagToSet(pending) : EditCommentUpdate(r)
    \/ \E r \in BagToSet(pending) : EditCommentInsert(r)
    \/ \E r \in BagToSet(pending) : EditCommentSuccessUrl(r)

DeleteCommentSteps ==
    \/ \E r \in BagToSet(pending) : DeleteCommentSuccessUrl(r)
    \/ \E r \in BagToSet(pending) : DeleteCommentDelete(r)

\* ownership: u1 writes posts and deletes them, u2 comments on them, and
\* every viewer who is not the author, signed in or not, asks to edit and to
\* delete each post and each comment
NextWrite ==
    \/ \E v \in {"u1", Anonymous} : CreatePost(v, 1, "c1")
    \/ \E v \in {"u2", Anonymous}, p \in PostIds : EditPostGetObject(v, p, 2, NoCategory)
    \/ \E v \in Viewers, p \in PostIds : DeletePostGetObject(v, p)
    \/ \E v \in {"u2", Anonymous}, p \in PostIds : AddCommentGetObject(v, p, <<" ", "y">>)
    \/ \E v \in {"u1", Anonymous}, c \in CommentIds : EditCommentGetObject(v, c, <<"h">>)
    \/ \E v \in {"u1", Anonymous}, c \in CommentIds : DeleteCommentGetObject(v, c)
    \/ DeletePostSteps
    \/ \E r \in BagToSet(pending) : AddCommentSave(r)

SpecWrite == Init /\ [][NextWrite]_vars

\* authorship: every viewer, signed in or not, asks to create posts, to
\* comment on each post, and to edit and to delete each post and each
\* comment, their own and the others'; every view runs all its statements,
\* the INSERT of an edit whose row was deleted while it waited included
NextAuthor ==
    \/ \E v \in Viewers : CreatePost(v, 1, "c1")
    \/ \E v \in Viewers, p \in PostIds : EditPostGetObject(v, p, 2, NoCategory)
    \/ \E v \in Viewers, p \in PostIds : DeletePostGetObject(v, p)
    \/ \E v \in Viewers, p \in PostIds : AddCommentGetObject(v, p, <<" ", "y">>)
    \/ \E v \in Viewers, c \in CommentIds : EditCommentGetObject(v, c, <<"h">>)
    \/ \E v \in Viewers, c \in CommentIds : DeleteCommentGetObject(v, c)
    \/ EditPostSteps
    \/ DeletePostSteps
    \/ \E r \in BagToSet(pending) : AddCommentSave(r)
    \/ EditCommentSteps
    \/ DeleteCommentSteps

SpecAuthor == Init /\ [][NextAuthor]_vars

\* posts and their comments come and go: u1 creates and deletes posts while
\* u2 adds comments and edits them
NextInterleaved ==
    \/ CreatePost("u1", 1, "c1")
    \/ \E p \in PostIds : DeletePostGetObject("u1", p)
    \/ \E p \in PostIds : AddCommentGetObject("u2", p, <<" ", "y">>)
    \/ \E c \in CommentIds : EditCommentGetObject("u2", c, <<"h">>)
    \/ DeletePostSteps
    \/ \E r \in BagToSet(pending) : AddCommentSave(r)
    \/ EditCommentSteps

SpecInterleaved == Init /\ [][NextInterleaved]_vars

\* every write view with all its statements: u1 writes, edits and deletes
\* posts, u2 adds, edits and deletes comments, with every text
NextStatements ==
    \/ CreatePost("u1", 1, "c1")
    \/ \E p \in PostIds : EditPostGetObject("u1", p, 2, NoCategory)
    \/ \E p \in PostIds : DeletePostGetObject("u1", p)
    \/ \E p \in PostIds, t \in Texts : AddCommentGetObject("u2", p, t)
    \/ \E c \in CommentIds, t \in Texts : EditCommentGetObject("u2", c, t)
    \/ \E c \in CommentIds : DeleteCommentGetObject("u2", c)
    \/ EditPostSteps
    \/ DeletePostSteps
    \/ \E r \in BagToSet(pending) : AddCommentSave(r)
    \/ EditCommentSteps
    \/ DeleteCommentSteps

SpecStatements == Init /\ [][NextStatements]_vars

\* the paginator of the profile page on every number of rows and page
NextPage == \E n \in 0..MaxRows, g \in PageParams : ProfilePage(n, g)

SpecPage == Init /\ [][NextPage]_vars

(***************************************************************************)
(* Vocabulary of the specification, in terms of the responses.             *)
(***************************************************************************)
\* public visibility of a post: published, due, and in a published category,
\* where a post without a category counts as in a published one
IsPubliclyVisible(p) ==
    /\ p.is_published
    /\ p.category # NoCategory => category_is_published[p.category]
    /\ p.pub_date <= now

\* the authorization decision a response to an edit or delete request reports
Decision(status) ==
    CASE status = RedirectLogin -> "DeniedUnauthenticated"
      [] status \in {RedirectDetail, RedirectIndex} -> "Allowed"
      [] status = NotFound -> "NotFound"
      [] OTHER -> "Error"

\* a listing runs from the latest pub_date to the earliest, equal dates by id
SortedNewestFirst(items) ==
    \A i, j \in 1..Len(items) :
        i < j => \/ posts[items[i]].pub_date > posts[items[j]].pub_date
                 \/ /\ posts[items[i]].pub_date = posts[items[j]].pub_date
                    /\ items[i] < items[j]

\* the last page of a listing of n rows that holds a row (0 when n = 0)
LastNonEmptyPage(n) == (n + paginate_by - 1) \div paginate_by

(***************************************************************************)
(* C1.  Viewing the detail of an existing post succeeds if and only if the *)
(* viewer is its author or the post is publicly visible.                   *)
(* The view answers the author of a post that is not public with 404.      *)
(***************************************************************************)
C1_DetailIffAuthorOrPublic ==
    (last.op = "post_detail" /\ last.pid \in DOMAIN posts) =>
        ((last.status = OK) <=>
            (posts[last.pid].author = last.viewer \/ IsPubliclyVisible(posts[last.pid])))

(***************************************************************************)
(* C2.  An edit or delete request on an existing post is allowed if and    *)
(* only if the viewer is authenticated and is the author; an anonymous     *)
(* viewer is denied as unauthenticated, any other viewer as not the owner, *)
(* and no denial is reported as not found.                                 *)
(* The views answer an authenticated viewer who is not the author with 404.*)
(***************************************************************************)
C2_EditDeleteDecision ==
    (last.op \in {"edit_post", "delete_post"} /\ last.pid \in DOMAIN posts) =>
        LET author == posts[last.pid].author
            d == Decision(last.status)
        IN  /\ (d = "Allowed") <=> (last.viewer # Anonymous /\ last.viewer = author)
            /\ last.viewer = Anonymous => d = "DeniedUnauthenticated"
            /\ last.viewer \notin {Anonymous, author} => d = "DeniedNotOwner"
            /\ d # "NotFound"

(***************************************************************************)
(* C3.  An edit or delete request on a post or a comment sent by anyone    *)
(* but the author of that post or comment (an anonymous viewer included)   *)
(* leaves every post and every comment as it was.                          *)
(***************************************************************************)
C3_DeniedRequest ==
    \/ /\ last'.op \in {"edit_post", "delete_post"}
       /\ last'.pid \in DOMAIN posts
       /\ last'.viewer # posts[last'.pid].author
    \/ /\ last'.op \in {"edit_comment", "delete_comment"}
       /\ last'.cid \in DOMAIN comments
       /\ last'.viewer # comments[last'.cid].author

C3_DeniedWriteLeavesStore ==
    [][C3_DeniedRequest => (posts' = posts /\ comments' = comments)]_vars

\* a signed-in viewer who is not the author has asked to delete a post that
\* carries a comment, and post and comment are still there
C3_Witness ==
    /\ last.op = "delete_post"
    /\ last.viewer \in Users
    /\ last.pid \in DOMAIN posts
    /\ last.viewer # posts[last.pid].author
    /\ \E c \in DOMAIN comments : comments[c].post = last.pid

(***************************************************************************)
(* C4.  Listing the posts of a category slug that names no category, or a  *)
(* category that is not published, answers not found, whatever posts the   *)
(* category holds: the statement that looks the category up lets the       *)
(* request pass only when the slug names a published category, and answers *)
(* 404 when it names none or an unpublished one.                           *)
(***************************************************************************)
C4_LookupPassed(r) ==
    /\ r.op = "category"
    /\ CopiesIn(r, pending') > CopiesIn(r, pending)

C4_LookupAnswered ==
    /\ last'.op = "category"
    /\ pending' = pending

C4_UnpublishedCategoryNotFound ==
    [][/\ \A r \in BagToSet(pending') :
             C4_LookupPassed(r) =>
                 (r.read.name \in Slugs /\ category_is_published[r.read.name])
       /\ (/\ C4_LookupAnswered
           /\ (last'.name \notin Slugs \/ ~category_is_published[last'.name]))
              => last'.status = NotFound]_vars

\* the category asked for is unpublished and holds a post that is published
\* and due
C4_Witness ==
    /\ last.op = "category"
    /\ last.page = NoPage
    /\ last.name \in Slugs
    /\ ~category_is_published[last.name]
    /\ last.status = NotFound
    /\ \E id \in DOMAIN posts :
          /\ posts[id].category = last.name
          /\ posts[id].is_published
          /\ posts[id].pub_date <= now

(***************************************************************************)
(* C5.  Every listing of posts that is served (index, category, profile)   *)
(* is sorted by pub_date descending, equal dates by id ascending.          *)
(* The query sets of views.py carry no order_by.                           *)
(***************************************************************************)
C5_ListingSorted ==
    (last.op \in {"index", "category", "profile"} /\ last.status = OK) =>
        SortedNewestFirst(last.items)

(***************************************************************************)
(* C6.  add_comment by an authenticated viewer on an existing post with an *)
(* empty or blank text creates no comment and answers with a validation    *)
(* error.                                                                  *)
(* The view answers with the redirect it also gives on success.            *)
(***************************************************************************)
ValidationError == "form errors"

C6_BlankCommentRejected ==
    (/\ last.op = "add_comment"
     /\ last.viewer # Anonymous
     /\ last.pid \in DOMAIN posts
     /\ strip(last.text) = <<>>)
        => (last.cid = 0 /\ last.status = ValidationError)

(***************************************************************************)
(* C7.  The profile of an account U shown to a viewer V reports            *)
(* is_owner = (V = U); it lists every post of U when V = U, and exactly    *)
(* the publicly visible posts of U otherwise.                              *)
(* The filter joins on the category, so a post of U without a category is  *)
(* shown to nobody but U.                                                  *)
(***************************************************************************)
C7_ProfilePosts ==
    (last.op = "profile" /\ User_by_username(last.name) # {}) =>
        LET U == CHOOSE u \in User_by_username(last.name) : TRUE
            authored == {id \in DOMAIN posts : posts[id].author = U}
        IN  /\ last.status = OK
            /\ last.is_owner = (last.viewer = U)
            /\ Len(last.items) = Cardinality(Range(last.items))
            /\ Range(last.items) =
                  IF last.viewer = U
                  THEN authored
                  ELSE {id \in authored : IsPubliclyVisible(posts[id])}

(***************************************************************************)
(* C8.  The profile paginator returns an empty page for a page number      *)
(* beyond the last non-empty page and a validation error for a page number *)
(* below 1.                                                                *)
(* Paginator.get_page answers both with the last page.                     *)
(***************************************************************************)
C8_PageOutOfRange ==
    (last.op = "profile_page" /\ last.page.kind = "number") =>
        /\ last.page.n > LastNonEmptyPage(last.rows) /\ last.page.n >= 1
              => (last.status = OK /\ last.items = <<>>)
        /\ last.page.n < 1 => last.status = ValidationError

(***************************************************************************)
(* C9.  After any sequence of create, edit, delete and add-comment         *)
(* requests by any viewers, the author of every post in the store is the   *)
(* viewer whose request created it, and the author of every comment in the *)
(* store is the viewer whose request added it.                             *)
(***************************************************************************)
C9_AuthorIsCreator ==
    /\ \A id \in DOMAIN posts : posts[id].author = post_creator[id]
    /\ \A c \in DOMAIN comments : comments[c].author = comment_creator[c]

\* after a post has been deleted, another post has just been edited, and it
\* carries a comment from someone else
C9_Witness ==
    /\ last.op = "edit_post"
    /\ last.status = RedirectDetail
    /\ DOMAIN post_creator \ DOMAIN posts # {}
    /\ \E c \in DOMAIN comments :
          /\ comments[c].post = last.pid
          /\ comments[c].author # posts[last.pid].author

(***************************************************************************)
(* C10.  Every comment in the store belongs to a post in the store, also   *)
(* when a post is deleted between the read and the save of add_comment.    *)
(***************************************************************************)
C10_CommentHasPost ==
    \A c \in DOMAIN comments : comments[c].post \in DOMAIN posts

\* an add_comment request found its post, the post was deleted, and the save
\* was turned down
C10_Witness ==
    /\ last.op = "add_comment"
    /\ last.status = ServerError
    /\ last.pid \notin DOMAIN posts

====
